---- MODULE Spec2Model ----
(***************************************************************************)
(* Model of the graph ingestion and match-query layer of botMatchMaking:   *)
(*   src/src/utils/neo4jHandler.py  SendDataNeo4j                          *)
(*   src/src/eitreeGPT.py           EitreeGPT, Neo4jMatchPeople            *)
(*   src/src/matchmaking.py         input_description                      *)
(*                                                                         *)
(* Query texts are sequences of string fragments.  A fragment that the     *)
(* code later cuts with query[:-1] is kept as a fragment of one character, *)
(* so that dropping the last fragment is dropping the last character.      *)
(* Exceptions are values: an operator that can raise returns a record      *)
(* [exc, query] and the action that calls it moves pc to "raised".         *)
(***************************************************************************)
EXTENDS Integers, Sequences, FiniteSets, TLC

\* ------------------------------------------------------------------ bounds
MaxRows == 2
MaxSkills == 4
MaxCount == 2

\* -------------------------------------------------------- program constants
TopK == 3

None == "None"
NoExc == "none"

\* ---------------------------------------------------------- scalar values
\* A scalar a record can hold: its Python type, the object it is (identity,
\* for the `is` tests), whether it is a NaN, and str(value).
NP_NAN == [type |-> "float", obj |-> "np.nan", isnan |-> TRUE, str |-> "nan"]
PY_NAN == [type |-> "float", obj |-> "float('nan')", isnan |-> TRUE, str |-> "nan"]
NP64_NAN == [type |-> "numpy.float64", obj |-> "np.float64('nan')", isnan |-> TRUE, str |-> "nan"]
EMPTY_STR == [type |-> "str", obj |-> "''", isnan |-> FALSE, str |-> ""]
PD_NA == [type |-> "NAType", obj |-> "pd.NA", isnan |-> FALSE, str |-> "<NA>"]
INT_7 == [type |-> "int", obj |-> "7", isnan |-> FALSE, str |-> "7"]
FLOAT_1_5 == [type |-> "float", obj |-> "1.5", isnan |-> FALSE, str |-> "1.5"]
STR_ANA == [type |-> "str", obj |-> "'ana'", isnan |-> FALSE, str |-> "ana"]
STR_LIST == [type |-> "str", obj |-> "'[1, 2]'", isnan |-> FALSE, str |-> "[1, 2]"]

Values == {NP_NAN, PY_NAN, NP64_NAN, EMPTY_STR, PD_NA, INT_7, FLOAT_1_5, STR_ANA, STR_LIST}

\* str.startswith("["), over the texts of Values
StartsWithBracket(s) == s \in {"[1, 2]"}

\* ------------------------------------------------------------ _verify_nan
\* The chain of `or` is evaluated left to right and stops at the first
\* truthy operand.  `pd.NA == ""` is pd.NA, whose truth value raises
\* TypeError; `math` is never imported by the module, so the last operand
\* raises NameError as soon as type(value) is float.  np.NaN is np.nan.
_verify_nan(value) ==
    IF value.obj = "np.nan" THEN "True"
    ELSE IF value.type = "str" /\ value.str = "" THEN "True"
    ELSE IF value.type = "NAType" THEN "TypeError"
    ELSE IF value.obj = "pd.NA" THEN "True"
    ELSE IF value.type = "float" THEN "NameError"
    ELSE "False"

\* -------------------------------------------------- _create_query_new_nodes
DropLast(query) == IF Len(query) = 0 THEN query ELSE SubSeq(query, 1, Len(query) - 1)

\* The text one column adds to the query (lines 155-162).
ColumnText(column, value) ==
    IF StartsWithBracket(value.str)
        THEN <<" SET", column, " = ", value.str, " ", ",">>
    ELSE IF value.type = "int"
        THEN <<" ", column, " : toInteger(", value.str, ") ", ",">>
    ELSE IF value.type = "float"
        THEN <<" ", column, " : toFloat(", value.str, ") ", ",">>
    ELSE <<" ", column, " : '", value.str, "' ", ",">>

\* The loop over the columns, from column index_columns on.
RECURSIVE NodeQueryLoop(_, _, _, _)
NodeQueryLoop(query, columns, row_data, index_columns) ==
    IF index_columns > Len(columns) THEN [exc |-> NoExc, query |-> query]
    ELSE LET column == columns[index_columns]
             isnan == _verify_nan(row_data[column])
         IN  IF isnan \in {"TypeError", "NameError"}
                 THEN [exc |-> isnan, query |-> query]
             ELSE IF isnan = "True"
                 THEN NodeQueryLoop(query, columns, row_data, index_columns + 1)
             ELSE NodeQueryLoop(query \o ColumnText(column, row_data[column]),
                                columns, row_data, index_columns + 1)

_create_query_new_nodes(columns, row_data, label) ==
    LET looped == NodeQueryLoop(<<"MERGE (n: ", label, " ", "{">>, columns, row_data, 1)
    IN  IF looped.exc # NoExc THEN looped
        ELSE [exc |-> NoExc, query |-> DropLast(looped.query) \o <<" ", "}", ")">>]

\* ------------------------------------------------------ _format_query_edges
\* row_data[column] of a pandas Series: KeyError when the label is no column.
HasColumn(row_data, column) == column \in DOMAIN row_data

_format_query_edges(label_node, label_node2, search_property_node, search_property_node2, property_node, property_node2, relationship_name, property_in_edge_, property_edge_, weigth_edge_) ==
    LET match == <<"MATCH (a:", label_node, "),(b:", label_node2, ") WHERE a.",
                   search_property_node, " = '", property_node, "' AND b.",
                   search_property_node2, " = '", property_node2, "' ",
                   "MERGE (a)-[r:", relationship_name>>
    IN  IF property_in_edge_
            THEN match \o <<" ", "{", property_edge_, " : ", weigth_edge_, "}", "]-(b)">>
            ELSE match \o <<"]-(b)">>

\* The argument list of the call at lines 245-256: the three row lookups are
\* evaluated whatever property_in_edge says.
EdgeQueryOfRow(row_data, property_node, property_node2, property_in_edge_, property_edge_, weigth_edge_) ==
    IF ~HasColumn(row_data, property_node) \/ ~HasColumn(row_data, property_node2)
          \/ ~HasColumn(row_data, weigth_edge_)
        THEN [exc |-> "KeyError", query |-> <<>>]
        ELSE [exc |-> NoExc,
              query |-> _format_query_edges("PEOPLE", "TECH", "name", "name",
                            row_data[property_node], row_data[property_node2], "KNOWS",
                            property_in_edge_, property_edge_, row_data[weigth_edge_])]

\* ------------------------------------------------- mount_query_match_people
\* str(level) in the f-string
IntStr(n) ==
    CASE n = 0 -> "0" [] n = 1 -> "1" [] n = 2 -> "2" [] n = 3 -> "3"
      [] n = 4 -> "4" [] n = 5 -> "5" [] OTHER -> "?"

Min(a, b) == IF a < b THEN a ELSE b

\* list(output_project.items())[:3]; a dict is the sequence of its items in
\* insertion order, each item <<tech, level>>.
TopThreeTechs(output_project) == SubSeq(output_project, 1, Min(TopK, Len(output_project)))

\* idx < len(top_three_techs) - 1, with idx counted from 0
OrAfterAll(idx, len) == <<" OR ">>

OrAfter(idx, len) == IF idx < len - 1 THEN <<" OR ">> ELSE <<>>

RECURSIVE MatchClauses(_, _)
MatchClauses(top_three_techs, i) ==
    IF i > Len(top_three_techs) THEN <<>>
    ELSE <<"(t.name = '", top_three_techs[i][1], "' AND r.skill_level >= ",
           IntStr(top_three_techs[i][2]), ")">>
         \o OrAfter(i - 1, Len(top_three_techs))
         \o MatchClauses(top_three_techs, i + 1)

mount_query_match_people(output_project) ==
    <<"MATCH (n:PEOPLE)-[r:KNOWS]->(t:TECH) WHERE">>
    \o MatchClauses(TopThreeTechs(output_project), 1)
    \o <<"RETURN COUNT(DISTINCT n)">>

\* ------------------------------------------------ get_techs_from_description
\* What __get_completion__ hands back: None (the except branch), the text
\* with the sentinel sentence, the text of a JSON object (its items, in
\* order), the text of a JSON array, or text that is no JSON.
Techs == {"Java", "java", "SQL", "React", "CSS"}
Levels == {1, 3, 5}

\* str.lower(), over Techs
Lower(tech) ==
    CASE tech = "Java" -> "java" [] tech = "java" -> "java" [] tech = "SQL" -> "sql"
      [] tech = "React" -> "react" [] tech = "CSS" -> "css" [] OTHER -> tech

Range(f) == {f[i] : i \in DOMAIN f}

\* The ordered maps with pairwise distinct keys, of at most MaxSkills items.
SkillMaps ==
    UNION {{m \in [1..n -> Techs \X Levels] :
              \A i, j \in 1..n : i # j => m[i][1] # m[j][1]} : n \in 0..MaxSkills}

Outputs ==
    {[kind |-> k, items |-> <<>>] : k \in {"None", "sentinel", "array", "text"}}
    \cup {[kind |-> "object", items |-> m] : m \in SkillMaps}

\* `"It sounds like ..." in output` raises TypeError on None; json.loads
\* raises JSONDecodeError on text that is no JSON.
get_techs_without_sentinel_test(output_) ==
    CASE output_.kind = "None" -> [exc |-> "TypeError", type |-> "none", items |-> <<>>]
      [] output_.kind \in {"sentinel", "text"} ->
            [exc |-> "JSONDecodeError", type |-> "none", items |-> <<>>]
      [] output_.kind = "array" -> [exc |-> NoExc, type |-> "list", items |-> <<>>]
      [] OTHER -> [exc |-> NoExc, type |-> "dict", items |-> output_.items]

get_techs_from_description(output_) ==
    CASE output_.kind = "None" -> [exc |-> "TypeError", type |-> "none", items |-> <<>>]
      [] output_.kind = "sentinel" -> [exc |-> NoExc, type |-> "str", items |-> <<>>]
      [] output_.kind = "text" -> [exc |-> "JSONDecodeError", type |-> "none", items |-> <<>>]
      [] output_.kind = "array" -> [exc |-> NoExc, type |-> "list", items |-> <<>>]
      [] OTHER -> [exc |-> NoExc, type |-> "dict", items |-> output_.items]

\* d[key] = value on a dict: a key already there keeps its place and takes
\* the new value, a new key goes last.
DictSet(d, key, value) ==
    IF \E i \in DOMAIN d : d[i][1] = key
        THEN [i \in DOMAIN d |-> IF d[i][1] = key THEN <<key, value>> ELSE d[i]]
        ELSE Append(d, <<key, value>>)

\* {tech.lower(): level for tech, level in techs_from_project.items()}
RECURSIVE LowerKeys(_, _, _)
LowerKeys(items, i, acc) ==
    IF i > Len(items) THEN acc
    ELSE LowerKeys(items, i + 1, DictSet(acc, Lower(items[i][1]), items[i][2]))

\* --------------------------------------------------------------- sessions
\* `with self.driver.session() as session:` leaves through __exit__, which
\* closes the session whether or not the block raised.
SessionExitLeakOnRaise(open, raising) == IF raising THEN open ELSE open - 1

SessionExit(open, raising) == open - 1

\* ------------------------------------------------------------------ state
DfColumns == <<"c1", "c2">>
NodeRows == [{"c1", "c2"} -> Values]
EdgeRows == [person : {"ana", "bob"}, tech : {"python"}, skill_level : {"3", "5"}]
ColumnLists == {<<>>, <<"c1">>, <<"c2">>, <<"c1", "c2">>, <<"c2", "c1">>, <<"zz">>}
NoRow == <<>>
NoQuery == <<>>

\* The rows a store read can hand back: none, or one row of one count.
StoreResults == {<<>>} \cup {<<<<c>>>> : c \in 0..MaxCount}

VARIABLES
    pc,                 \* where the running call is
    op,                 \* the call: create_nodes, send_edges_neo4j, matchmaking
    nrows,              \* len(dataframe)
    index,              \* rows iterrows() has finished
    row,                \* the row iterrows() yielded
    all_columns,        \* create_nodes arguments
    columns,            \* the columns create_nodes hands to the builder
    property_in_edge,   \* send_edges_neo4j arguments
    property_edge,
    weigth_edge,
    output,             \* the completion text of the request
    techs_from_project, \* the lower-cased skill map
    query,              \* the query text built last
    result,             \* the records a read handed back
    response,           \* {"matches": response}, -1 while there is none
    error,              \* the exception that left the call
    attempts,           \* per row whose write was attempted: "ok" or "failed"
    sessionsOpen,       \* sessions acquired and not released
    sessionTx,          \* transactions the open session has run
    acquired,           \* sessions acquired by the call
    storeReads          \* read transactions issued

vars == <<pc, op, nrows, index, row, all_columns, columns, property_in_edge,
          property_edge, weigth_edge, output, techs_from_project, query, result,
          response, error, attempts, sessionsOpen, sessionTx, acquired, storeReads>>

argVars == <<nrows, all_columns, columns, property_in_edge, property_edge,
             weigth_edge, output>>

Init ==
    /\ pc = "idle"
    /\ op = "none"
    /\ nrows = 0
    /\ index = 0
    /\ row = NoRow
    /\ all_columns = TRUE
    /\ columns = <<>>
    /\ property_in_edge = FALSE
    /\ property_edge = None
    /\ weigth_edge = None
    /\ output = [kind |-> "None", items |-> <<>>]
    /\ techs_from_project = <<>>
    /\ query = NoQuery
    /\ result = <<>>
    /\ response = -1
    /\ error = NoExc
    /\ attempts = <<>>
    /\ sessionsOpen = 0
    /\ sessionTx = 0
    /\ acquired = 0
    /\ storeReads = 0

\* ------------------------------------------------------------ create_nodes
\* The call and its `for` header: dataframe[columns_to_add] raises KeyError
\* on a label that is no column, before any row is read.
CallCreateNodes ==
    /\ pc = "idle"
    /\ \E n \in 0..MaxRows, ac \in BOOLEAN, cta \in ColumnLists :
        /\ ac => cta = <<>>
        /\ op' = "create_nodes"
        /\ nrows' = n
        /\ all_columns' = ac
        /\ columns' = IF ac THEN DfColumns ELSE cta
        /\ IF ~ac /\ \E i \in DOMAIN cta : cta[i] \notin Range(DfColumns)
              THEN pc' = "raised" /\ error' = "KeyError"
              ELSE pc' = "iterrows" /\ error' = error
    /\ UNCHANGED <<index, row, property_in_edge, property_edge, weigth_edge, output,
                   techs_from_project, query, result, response, attempts,
                   sessionsOpen, sessionTx, acquired, storeReads>>

\* -------------------------------------------------------- send_edges_neo4j
CallSendEdges ==
    /\ pc = "idle"
    /\ \E n \in 0..MaxRows, pie \in BOOLEAN, pe \in {None, "skill_level"},
          we \in {None, "skill_level"} :
        /\ op' = "send_edges_neo4j"
        /\ nrows' = n
        /\ property_in_edge' = pie
        /\ property_edge' = pe
        /\ weigth_edge' = we
    /\ pc' = "iterrows"
    /\ UNCHANGED <<index, row, all_columns, columns, output, techs_from_project, query,
                   result, response, error, attempts, sessionsOpen, sessionTx,
                   acquired, storeReads>>

\* ------------------------------------------------- the loop of both batches
\* iterrows() yields the next row of the dataframe.
IterRowsNext ==
    /\ pc = "iterrows"
    /\ index < nrows
    /\ row' \in (IF op = "create_nodes" THEN NodeRows ELSE EdgeRows)
    /\ pc' = "session"
    /\ UNCHANGED <<op, index, techs_from_project, query, result, response, error,
                   attempts, sessionsOpen, sessionTx, acquired, storeReads>>
    /\ UNCHANGED argVars

\* iterrows() is exhausted: the call returns None.
IterRowsStop ==
    /\ pc = "iterrows"
    /\ index >= nrows
    /\ pc' = "returned"
    /\ UNCHANGED <<op, index, row, techs_from_project, query, result, response, error,
                   attempts, sessionsOpen, sessionTx, acquired, storeReads>>
    /\ UNCHANGED argVars

\* self.driver.session().__enter__()
AcquireSession ==
    /\ pc = "session"
    /\ sessionsOpen' = sessionsOpen + 1
    /\ sessionTx' = 0
    /\ acquired' = acquired + 1
    /\ pc' = IF op = "matchmaking" THEN "read_transaction" ELSE "build"
    /\ UNCHANGED <<op, index, row, techs_from_project, query, result, response, error,
                   attempts, storeReads>>
    /\ UNCHANGED argVars

\* The query argument of execute_write is evaluated inside the `with`
\* block; an exception of the builder leaves the block and the call.
BuildQuery ==
    /\ pc = "build"
    /\ LET built == IF op = "create_nodes"
                        THEN _create_query_new_nodes(columns, row, "PEOPLE")
                        ELSE EdgeQueryOfRow(row, "person", "tech", property_in_edge,
                                            property_edge, weigth_edge)
       IN  IF built.exc # NoExc
               THEN /\ pc' = "raised"
                    /\ error' = built.exc
                    /\ attempts' = Append(attempts, "failed")
                    /\ sessionsOpen' = SessionExit(sessionsOpen, TRUE)
                    /\ query' = query
               ELSE /\ pc' = "execute_write"
                    /\ query' = built.query
                    /\ UNCHANGED <<error, attempts, sessionsOpen>>
    /\ UNCHANGED <<op, index, row, techs_from_project, result, response, sessionTx,
                   acquired, storeReads>>
    /\ UNCHANGED argVars

\* session.execute_write(self._run_query, query): the store commits the
\* write or the transaction raises.
ExecuteWrite ==
    /\ pc = "execute_write"
    /\ sessionTx' = sessionTx + 1
    /\ \E committed \in BOOLEAN :
        IF committed
            THEN /\ pc' = "exit"
                 /\ attempts' = Append(attempts, "ok")
                 /\ UNCHANGED <<error, sessionsOpen>>
            ELSE /\ pc' = "raised"
                 /\ error' = "Neo4jError"
                 /\ attempts' = Append(attempts, "failed")
                 /\ sessionsOpen' = SessionExit(sessionsOpen, TRUE)
    /\ UNCHANGED <<op, index, row, techs_from_project, query, result, response,
                   acquired, storeReads>>
    /\ UNCHANGED argVars

\* print(...), the end of the `with` block, and the next turn of the loop.
ExitSession ==
    /\ pc = "exit"
    /\ sessionsOpen' = SessionExit(sessionsOpen, FALSE)
    /\ index' = index + 1
    /\ pc' = "iterrows"
    /\ UNCHANGED <<op, row, techs_from_project, query, result, response, error,
                   attempts, sessionTx, acquired, storeReads>>
    /\ UNCHANGED argVars

\* ------------------------------------------------------- input_description
\* POST /matchmaking: the completion service answers the description.
Request ==
    /\ pc = "idle"
    /\ output' \in Outputs
    /\ op' = "matchmaking"
    /\ pc' = "get_techs"
    /\ UNCHANGED <<nrows, index, row, all_columns, columns, property_in_edge,
                   property_edge, weigth_edge, techs_from_project, query, result,
                   response, error, attempts, sessionsOpen, sessionTx, acquired,
                   storeReads>>

\* Lines 30-38: a str answer ends the request with {"matches": 0}; any other
\* answer is asked for its .items(), which a list does not have.
GetTechs ==
    /\ pc = "get_techs"
    /\ LET techs == get_techs_from_description(output)
       IN  IF techs.exc # NoExc
               THEN /\ pc' = "raised"
                    /\ error' = techs.exc
                    /\ UNCHANGED <<response, techs_from_project>>
           ELSE IF techs.type = "str"
               THEN /\ pc' = "returned"
                    /\ response' = 0
                    /\ UNCHANGED <<error, techs_from_project>>
           ELSE IF techs.type # "dict"
               THEN /\ pc' = "raised"
                    /\ error' = "AttributeError"
                    /\ UNCHANGED <<response, techs_from_project>>
           ELSE /\ pc' = "mount"
                /\ techs_from_project' = LowerKeys(techs.items, 1, <<>>)
                /\ UNCHANGED <<response, error>>
    /\ UNCHANGED <<op, index, row, query, result, attempts, sessionsOpen, sessionTx,
                   acquired, storeReads>>
    /\ UNCHANGED argVars

\* Lines 39-41, then search_people is entered.
MountQuery ==
    /\ pc = "mount"
    /\ query' = mount_query_match_people(techs_from_project)
    /\ pc' = "session"
    /\ UNCHANGED <<op, index, row, techs_from_project, result, response, error,
                   attempts, sessionsOpen, sessionTx, acquired, storeReads>>
    /\ UNCHANGED argVars

\* ------------------------------------------------------------ search_people
\* session.read_transaction(self._run_query, query): the store hands back
\* the list of its records, or the transaction raises.
ReadTransaction ==
    /\ pc = "read_transaction"
    /\ storeReads' = storeReads + 1
    /\ sessionTx' = sessionTx + 1
    /\ \/ /\ result' \in StoreResults
          /\ pc' = "index_result"
          /\ UNCHANGED <<error, sessionsOpen>>
       \/ /\ pc' = "raised"
          /\ error' = "Neo4jError"
          /\ sessionsOpen' = SessionExit(sessionsOpen, TRUE)
          /\ result' = result
    /\ UNCHANGED <<op, index, row, techs_from_project, query, response, attempts,
                   acquired>>
    /\ UNCHANGED argVars

\* return result[0][0]: IndexError on an empty list; either way the `with`
\* block is left.
ReturnFirst ==
    /\ pc = "index_result"
    /\ IF Len(result) = 0
          THEN /\ pc' = "raised"
               /\ error' = "IndexError"
               /\ sessionsOpen' = SessionExit(sessionsOpen, TRUE)
               /\ response' = response
          ELSE /\ pc' = "returned"
               /\ response' = result[1][1]
               /\ sessionsOpen' = SessionExit(sessionsOpen, FALSE)
               /\ error' = error
    /\ UNCHANGED <<op, index, row, techs_from_project, query, result, attempts,
                   sessionTx, acquired, storeReads>>
    /\ UNCHANGED argVars

Next ==
    \/ CallCreateNodes
    \/ CallSendEdges
    \/ IterRowsNext
    \/ IterRowsStop
    \/ AcquireSession
    \/ BuildQuery
    \/ ExecuteWrite
    \/ ExitSession
    \/ Request
    \/ GetTechs
    \/ MountQuery
    \/ ReadTransaction
    \/ ReturnFirst

Spec == Init /\ [][Next]_vars

\* ====================================================== properties checked
Count(q, fragment) == Cardinality({i \in DOMAIN q : q[i] = fragment})

Batch == {"create_nodes", "send_edges_neo4j"}
Terminal == {"returned", "raised"}

\* The value is absent in the sense of the design: a NaN in any
\* representation, the empty string, or the missing marker.
Absent(value) == value \in {NP_NAN, PY_NAN, NP64_NAN, EMPTY_STR, PD_NA}

\* The (skill, level) pairs of the clauses of a match query, in order.
RECURSIVE CriteriaOf(_, _)
CriteriaOf(q, i) ==
    IF i > Len(q) THEN <<>>
    ELSE IF q[i] = "(t.name = '" /\ i + 3 <= Len(q)
        THEN <<<<q[i + 1], q[i + 3]>>>> \o CriteriaOf(q, i + 5)
        ELSE CriteriaOf(q, i + 1)

\* Stable ranking by level, highest first: an item goes behind every item
\* of a level at least its own.
InsertRanked(ranked, item) ==
    LET before == Cardinality({i \in DOMAIN ranked : ranked[i][2] >= item[2]})
    IN  SubSeq(ranked, 1, before) \o <<item>> \o SubSeq(ranked, before + 1, Len(ranked))

RECURSIVE Rank(_, _, _)
Rank(items, i, ranked) ==
    IF i > Len(items) THEN ranked ELSE Rank(items, i + 1, InsertRanked(ranked, items[i]))

Top(items, k) == SubSeq(Rank(items, 1, <<>>), 1, Min(k, Len(items)))

AsText(criteria) == [i \in DOMAIN criteria |-> <<criteria[i][1], IntStr(criteria[i][2])>>]

\* mount_query_match_people has built the query of the request.
Mounted == op = "matchmaking" /\ pc \in {"session", "read_transaction", "index_result"}

\* C1: in a batch, a record whose write fails does not abort the call: the
\* call goes on and returns with a write attempted for every record.
C1_BatchIsolatesFailures ==
    (op \in Batch /\ \E i \in DOMAIN attempts : attempts[i] = "failed")
        => /\ pc # "raised"
           /\ pc = "returned" => Len(attempts) = nrows

\* C2: for every skill map, in any key order, the criteria of the query are
\* its entries ranked by level (highest first, ties in map order), cut to
\* the first three.
C2_CriteriaAreTopThreeByLevel ==
    Mounted => CriteriaOf(query, 1) = AsText(Top(techs_from_project, TopK))

\* C3: with an empty skill map the builder fails with InvalidCriteria,
\* there is no query text and no store read is issued.
C3_EmptyCriteriaFailFast ==
    (op = "matchmaking" /\ output.kind = "object" /\ Len(output.items) = 0
        /\ pc \notin {"get_techs", "mount"})
        => /\ error = "InvalidCriteria"
           /\ query = NoQuery
           /\ storeReads = 0

\* C4: for a skill map of n >= 1 entries the query holds exactly
\* k = min(n, 3) clauses (t.name = '<skill>' AND r.skill_level >= <level>),
\* one per criterion and in their order, joined by exactly k - 1 OR, none
\* leading or trailing, followed by the count of distinct people.
C4_ClausesJoinedByOr ==
    (Mounted /\ Len(techs_from_project) >= 1) =>
        LET k == Min(Len(techs_from_project), TopK)
            q == query
        IN  /\ Len(q) = 2 + 5 * k + (k - 1)
            /\ q[1] = "MATCH (n:PEOPLE)-[r:KNOWS]->(t:TECH) WHERE"
            /\ q[2] = "(t.name = '"
            /\ q[Len(q) - 1] = ")"
            /\ q[Len(q)] = "RETURN COUNT(DISTINCT n)"
            /\ Count(q, "(t.name = '") = k
            /\ Count(q, " OR ") = k - 1
            /\ \A i \in DOMAIN q :
                  q[i] = "(t.name = '" =>
                      /\ i + 4 <= Len(q)
                      /\ q[i + 2] = "' AND r.skill_level >= "
                      /\ q[i + 4] = ")"
            /\ \A i \in DOMAIN q :
                  q[i] = " OR " =>
                      /\ i > 1 /\ i < Len(q)
                      /\ q[i - 1] = ")"
                      /\ q[i + 1] = "(t.name = '"
            /\ CriteriaOf(q, 1) = AsText(SubSeq(techs_from_project, 1, k))

C4_Witness ==
    /\ Mounted
    /\ Len(techs_from_project) = 4
    /\ Count(query, " OR ") = 2

\* C5: when the completion service answers with the sentinel the request
\* ends with {"matches": 0} and no query is built or sent; a store read is
\* issued only after a skill map was parsed.
C5_SentinelShortCircuits ==
    /\ (op = "matchmaking" /\ output.kind = "sentinel") =>
          /\ pc \in {"get_techs", "returned"}
          /\ pc = "returned" => response = 0
          /\ query = NoQuery
          /\ acquired = 0
          /\ storeReads = 0
    /\ (op = "matchmaking" /\ (storeReads > 0 \/ acquired > 0)) => output.kind = "object"

C5_Witness ==
    /\ op = "matchmaking"
    /\ output.kind = "sentinel"
    /\ pc = "returned"
    /\ response = 0
    /\ storeReads = 0

\* C6: a column whose value is absent never appears as a property of the
\* node write, and classifying an absent value does not raise.
C6_AbsentNeverWritten ==
    (op = "create_nodes" /\ (pc = "execute_write" \/ (pc = "raised" /\ row # NoRow))) =>
        \A i \in DOMAIN columns :
            Absent(row[columns[i]]) =>
                /\ _verify_nan(row[columns[i]]) \notin {"TypeError", "NameError"}
                /\ pc = "execute_write" => Count(query, columns[i]) = 0

\* C7: when every selected column is absent, or no column is selected, the
\* node write is a bare labeled node: no property, and the braces of the
\* property map are balanced.
C7_BareNodeWellFormed ==
    (op = "create_nodes" /\ pc = "execute_write"
        /\ \A i \in DOMAIN columns : Absent(row[columns[i]])) =>
        /\ \A i \in DOMAIN columns : Count(query, columns[i]) = 0
        /\ Count(query, "{") = Count(query, "}")

\* C8: search_people returns 0 and does not raise when the store hands back
\* no row, and the first column of the first row otherwise.
C8_EmptyResultIsZero ==
    (op = "matchmaking" /\ pc \in Terminal /\ storeReads > 0 /\ error # "Neo4jError") =>
        /\ pc = "returned"
        /\ response = (IF Len(result) = 0 THEN 0 ELSE result[1][1])

\* C9: a session is open only inside the one operation it was acquired
\* for: never two at once, never serving two transactions, and released
\* before the next one is acquired and before the call returns or raises.
C9_SessionScopedToOperation ==
    /\ sessionsOpen \in {0, 1}
    /\ sessionTx <= 1
    /\ pc \in {"idle", "iterrows", "session", "get_techs", "mount", "returned", "raised"}
          => sessionsOpen = 0
    /\ pc \in {"build", "execute_write", "exit", "read_transaction", "index_result"}
          => sessionsOpen = 1

C9_Witness ==
    /\ op \in Batch
    /\ pc = "raised"
    /\ error = "Neo4jError"
    /\ acquired = 2
    /\ sessionsOpen = 0

\* C10: the edge property is optional: with one supplied the relationship
\* merge carries exactly that property, with none supplied (the defaults)
\* it carries none, and the call still writes every record.
C10_EdgePropertyOptional ==
    op = "send_edges_neo4j" =>
        /\ pc = "execute_write" =>
              /\ Count(query, "MERGE (a)-[r:") = 1
              /\ IF property_in_edge
                    THEN /\ Count(query, "{") = 1
                         /\ \E i \in DOMAIN query :
                               /\ query[i] = "{"
                               /\ query[i + 1] = property_edge
                               /\ query[i + 3] = row[weigth_edge]
                    ELSE Count(query, "{") = 0
        /\ (~property_in_edge /\ property_edge = None /\ weigth_edge = None) =>
              /\ error # "KeyError"
              /\ pc = "returned" => Len(attempts) = nrows

====
